---- MODULE Spec2Model ----
(***************************************************************************)
(* MonetDBe-Python, monetdbe/_cffi/internal.py: the class Internal, which  *)
(* keeps ONE native connection handle for the whole process in class       *)
(* attributes (_active_context, in_memory_active, _connection) and makes   *)
(* every Session (an Internal object) switch to itself before it talks to  *)
(* the engine.                                                             *)
(*                                                                         *)
(* A session runs one method at a time; pc[s] is its position inside the   *)
(* method.  Every statement that reads or writes a class attribute or calls*)
(* the engine is one step.  With threaded = FALSE a method runs from entry *)
(* to return before any other session starts one (whole operations); with  *)
(* threaded = TRUE each session is driven by its own thread and the steps  *)
(* interleave freely (no lock exists in the code).                         *)
(*                                                                         *)
(* The engine (the lib.monetdbe calls) is external: its result codes are   *)
(* inputs, drawn with \E.  A handle whose close reports failure stays as   *)
(* it was, which is what close() assumes by keeping _connection.  A handle *)
(* is an address: once closed it is free, and a later open may return the  *)
(* same address again; MaxHandles bounds the handles allocated at a time.  *)
(* Results and prepared statements remember the handle they were made on.  *)
(*                                                                         *)
(* The module functions get_autocommit, bind and execute are called for a  *)
(* session by the code that holds it; they have no self.                   *)
(* result_fetch_numpy is a pure function of one result column: it has its  *)
(* own specification, SpecFetch, which draws the column from bounded sets. *)
(***************************************************************************)
EXTENDS Integers, Sequences, FiniteSets, TLC

\* ---------------------------------------------------------------- bounds
NumSessions == 2
MaxHandles == 2
MaxResults == 1
MaxThreadOps == 3    \* methods the threads run in all, when threads interleave
MaxStatements == 1
MaxRows == 3         \* rows of a result column

Sessions == 1..NumSessions
Handles == 1..MaxHandles
Results == 1..MaxResults
Statements == 1..MaxStatements

None == 0     \* Python None for _active_context
NULL == 0     \* ffi.NULL / None for handles and result pointers
GONE == -1    \* in rconn: the connection the result was produced on is closed

VARIABLES
    threaded,          \* whether sessions are driven by concurrent threads
    nops,              \* methods entered so far by all threads (threaded only)
    active_context,    \* Internal._active_context
    in_memory_active,  \* Internal.in_memory_active
    connection,        \* Internal._connection
    hstate,            \* engine: handle -> "free" | "open" | "err"
    howner,            \* engine: allocated handle -> the session whose open() made it
    rconn,             \* engine: result -> handle it was produced on (NULL: none yet)
    rstate,            \* engine: result -> "none" | "live" | "freed"
    alive,             \* session -> "new" | "init" | "live" | "dead"
    dbdir,             \* session -> self.dbdir ("none" is None)
    pc,                \* session -> position in its current method
    op,                \* session -> the method it runs
    cont,              \* session -> where _switch() returns to
    loc,               \* session -> local handle (connection in open())
    arg,               \* session -> the method's arguments
    cols,              \* session -> existing_columns in append / get_columns
    status,            \* session -> how the method ended
    calls,             \* session -> engine calls issued by the current method
    pre,               \* session -> class attributes when the method was entered
    prev,              \* the method that returned last, if a successful close()
                       \* (pre and prev are kept for whole operations only)
    stconn,            \* engine: statement -> handle it was prepared on (NULL: none)
    fetch              \* result_fetch_numpy: the column being materialized

classVars == <<active_context, in_memory_active, connection>>
engVars == <<hstate, howner, rconn, rstate>>
histVars == <<calls, pre, prev>>
vars == <<threaded, nops, active_context, in_memory_active, connection, hstate, howner,
          rconn, rstate, alive, dbdir, pc, op, cont, loc, arg, cols, status,
          calls, pre, prev, stconn, fetch>>

DbDirs == {"none", "dir"}

NoStatus == [kind |-> "none", info |-> <<>>]
Ok == [kind |-> "ok", info |-> <<>>]
Raised(k, i) == [kind |-> k, info |-> i]
OperationalError == Raised("OperationalError", <<>>)

NoPrev == [s |-> None, op |-> "none", kind |-> "none"]
NoPre == [active |-> None, connection |-> NULL, in_memory |-> FALSE, prev |-> NoPrev]

\* The record of one engine call: what was called, on which handle, and what
\* that handle was at the moment of the call.
CallRec(kind, h, x) ==
    [kind |-> kind, h |-> h,
     hs |-> IF h = NULL THEN "null" ELSE hstate[h],
     own |-> IF h = NULL THEN None ELSE howner[h],
     x |-> x]

Log(s, rec) == calls' = [calls EXCEPT ![s] = Append(@, rec)]
Goto(s, p) == pc' = [pc EXCEPT ![s] = p]

\* The method ends (returns or raises) with status st.
Finish(s, st) ==
    /\ pc' = [pc EXCEPT ![s] = "done"]
    /\ status' = [status EXCEPT ![s] = st]

\* Whole operations: a method may be entered only when no other is running.
\* Threads: a thread enters its next method at any time; the threads enter
\* MaxThreadOps methods in all.
MayRun(s) ==
    IF threaded
    THEN nops < MaxThreadOps
    ELSE \A t \in Sessions \ {s} : pc[t] = "idle"

\* Entry of method o of session s with argument a, first position p, and
\* _switch() returning to c.
Begin(s, o, a, p, c) ==
    /\ MayRun(s)
    /\ pc[s] = "idle"
    /\ op' = [op EXCEPT ![s] = o]
    /\ arg' = [arg EXCEPT ![s] = a]
    /\ pc' = [pc EXCEPT ![s] = p]
    /\ cont' = [cont EXCEPT ![s] = c]
    /\ status' = [status EXCEPT ![s] = NoStatus]
    /\ calls' = [calls EXCEPT ![s] = <<>>]
    /\ pre' = [pre EXCEPT ![s] =
                  IF threaded THEN NoPre
                  ELSE [active |-> active_context, connection |-> connection,
                        in_memory |-> in_memory_active, prev |-> prev]]
    /\ nops' = IF threaded THEN nops + 1 ELSE nops
    /\ UNCHANGED <<threaded, fetch, stconn, classVars, engVars, loc, cols, prev>>

\* lib.monetdbe_close(h) with result code rc: on 0 an allocated handle is
\* released, and the results produced and the statements prepared on it have
\* lost their connection.  A
\* handle that monetdbe_open left behind with an error holds no database:
\* closing it releases it, whatever code is reported (open() ignores it).
EngineClose(h, rc) ==
    IF h # NULL /\ (hstate[h] = "err" \/ (rc = 0 /\ hstate[h] = "open"))
    THEN /\ hstate' = [hstate EXCEPT ![h] = "free"]
         /\ howner' = [howner EXCEPT ![h] = None]
         /\ rconn' = [r \in Results |-> IF rconn[r] = h THEN GONE ELSE rconn[r]]
         /\ stconn' = [st \in Statements |-> IF stconn[st] = h THEN GONE ELSE stconn[st]]
    ELSE UNCHANGED <<hstate, howner, rconn, stconn>>

FreeHandles == {h \in Handles : hstate[h] = "free"}
NewHandle == CHOOSE h \in FreeHandles : \A g \in FreeHandles : h <= g

\* A method of a constructed session: the object and its configuration stay.
Enter(s, o, a, p, c) ==
    /\ alive[s] = "live"
    /\ Begin(s, o, a, p, c)
    /\ UNCHANGED <<alive, dbdir>>

\* _switch() returns to its caller; __init__ and close() have nothing after it.
Resume(s, p) ==
    IF p = "return"
    THEN Finish(s, Ok)
    ELSE Goto(s, p) /\ UNCHANGED status

NoArg == [result |-> NULL, statement |-> NULL, make_result |-> FALSE, data |-> <<>>]

\* ------------------------------------------------------------ Internal
\* __init__: store the configuration, then _switch().
Internal_init(s) ==
    /\ alive[s] = "new"
    /\ \E d \in DbDirs : dbdir' = [dbdir EXCEPT ![s] = d]
    /\ alive' = [alive EXCEPT ![s] = "init"]
    /\ Begin(s, "init", NoArg, "switch_check", "return")

\* __del__: only close if we are deleting the active context.
Internal_del(s) ==
    /\ alive[s] = "live"
    /\ Begin(s, "del", NoArg, "del_check", "return")
    /\ UNCHANGED <<alive, dbdir>>

\* Mutant of del_check: __del__ closes whoever the active context is.
del_check_always(s) ==
    /\ pc[s] = "del_check"
    /\ Goto(s, "close_check")
    /\ UNCHANGED <<threaded, fetch, stconn, nops, classVars, engVars, alive, dbdir, op, cont, loc,
                   arg, cols, status, histVars>>

del_check(s) ==
    /\ pc[s] = "del_check"
    /\ IF active_context = s
       THEN Goto(s, "close_check") /\ UNCHANGED status
       ELSE Finish(s, Ok)
    /\ UNCHANGED <<threaded, fetch, stconn, nops, classVars, engVars, alive, dbdir, op, cont, loc, arg,
                   cols, histVars>>

\* Mutant of switch_check: _switch() goes straight to open(), without close().
switch_check_noclose(s) ==
    /\ pc[s] = "switch_check"
    /\ IF active_context = s
       THEN Resume(s, cont[s])
       ELSE Goto(s, "open_call") /\ UNCHANGED status
    /\ UNCHANGED <<threaded, fetch, stconn, nops, classVars, engVars, alive, dbdir, op, cont, loc, arg,
                   cols, histVars>>

\* Mutant of switch_check: no early return for the active session.
switch_check_always(s) ==
    /\ pc[s] = "switch_check"
    /\ Goto(s, "close_check")
    /\ UNCHANGED <<threaded, fetch, stconn, nops, classVars, engVars, alive, dbdir, op, cont, loc, arg,
                   cols, status, histVars>>

\* _switch: if self._active_context == self: return; else self.close() ...
switch_check(s) ==
    /\ pc[s] = "switch_check"
    /\ IF active_context = s
       THEN Resume(s, cont[s])
       ELSE Goto(s, "close_check") /\ UNCHANGED status
    /\ UNCHANGED <<threaded, fetch, stconn, nops, classVars, engVars, alive, dbdir, op, cont, loc, arg,
                   cols, histVars>>

\* Mutant of close_check: the engine close is called whatever _connection is.
close_check_noguard(s) ==
    /\ pc[s] = "close_check"
    /\ Goto(s, "close_call")
    /\ UNCHANGED <<threaded, fetch, stconn, nops, classVars, engVars, alive, dbdir, op, cont, loc, arg,
                   cols, status, histVars>>

\* close: if self._connection:
close_check(s) ==
    /\ pc[s] = "close_check"
    /\ IF connection # NULL
       THEN Goto(s, "close_call")
       ELSE Goto(s, "close_clear_active")
    /\ UNCHANGED <<threaded, fetch, stconn, nops, classVars, engVars, alive, dbdir, op, cont, loc, arg,
                   cols, status, histVars>>

\* Mutant of close_call: the result code of the engine close is not looked at.
close_call_unchecked(s) ==
    /\ pc[s] = "close_call"
    /\ \E rc \in {0, -2} :
        /\ Log(s, CallRec("close", connection, rc))
        /\ EngineClose(connection, rc)
    /\ Goto(s, "close_set_connection")
    /\ UNCHANGED <<threaded, fetch, nops, classVars, rstate, alive, dbdir, op, cont,
                   loc, arg, cols, status, pre, prev>>

\* close: if lib.monetdbe_close(self._connection): raise OperationalError
close_call(s) ==
    /\ pc[s] = "close_call"
    /\ \E rc \in {0, -2} :
        /\ Log(s, CallRec("close", connection, rc))
        /\ EngineClose(connection, rc)
        /\ IF rc = 0
           THEN Goto(s, "close_set_connection") /\ UNCHANGED status
           ELSE Finish(s, Raised("OperationalError", <<"Failed to close database">>))
    /\ UNCHANGED <<threaded, fetch, nops, classVars, rstate, alive, dbdir, op, cont,
                   loc, arg, cols, pre, prev>>

\* close: self.set_connection(None)
close_set_connection(s) ==
    /\ pc[s] = "close_set_connection"
    /\ connection' = NULL
    /\ Goto(s, "close_clear_active")
    /\ UNCHANGED <<threaded, fetch, stconn, nops, active_context, in_memory_active, engVars, alive, dbdir,
                   op, cont, loc, arg, cols, status, histVars>>

\* Mutant of close_clear_active: the marker is left as it is.
close_clear_active_skip(s) ==
    /\ pc[s] = "close_clear_active"
    /\ Goto(s, "close_in_memory")
    /\ UNCHANGED <<threaded, fetch, stconn, nops, classVars, engVars, alive, dbdir,
                   op, cont, loc, arg, cols, status, histVars>>

\* close: if self._active_context: self.set_active_context(None)
\* (an Internal object is truthy, so the marker is None afterwards either way)
close_clear_active(s) ==
    /\ pc[s] = "close_clear_active"
    /\ active_context' = None
    /\ Goto(s, "close_in_memory")
    /\ UNCHANGED <<threaded, fetch, stconn, nops, in_memory_active, connection, engVars, alive, dbdir,
                   op, cont, loc, arg, cols, status, histVars>>

\* Mutant of close_in_memory: close() marks the in-memory database as released.
close_in_memory_release(s) ==
    /\ pc[s] = "close_in_memory"
    /\ in_memory_active' = (in_memory_active /\ dbdir[s] # "none")
    /\ IF op[s] \in {"close", "del"}
       THEN Finish(s, Ok)
       ELSE Goto(s, "open_call") /\ UNCHANGED status
    /\ UNCHANGED <<threaded, fetch, stconn, nops, active_context, connection, engVars, alive, dbdir,
                   op, cont, loc, arg, cols, histVars>>

\* close: if not self.dbdir: self.set_in_memory_active(True); then close()
\* returns, to its caller (_switch goes on to open()) or to the user.
close_in_memory(s) ==
    /\ pc[s] = "close_in_memory"
    /\ in_memory_active' = (in_memory_active \/ dbdir[s] = "none")
    /\ IF op[s] \in {"close", "del"}
       THEN Finish(s, Ok)
       ELSE Goto(s, "open_call") /\ UNCHANGED status
    /\ UNCHANGED <<threaded, fetch, stconn, nops, active_context, connection, engVars, alive, dbdir,
                   op, cont, loc, arg, cols, histVars>>

\* open: result_code = lib.monetdbe_open(p_connection, url, p_options).
\*   0: a new open handle;  -2: "Error in DB", with or without a handle
\*   allocated;  -1 "Allocation failed" and any other code: no handle.
OpenCodes == {0, -1, -2, 1}

open_call(s) ==
    /\ pc[s] = "open_call"
    /\ \E rc \in OpenCodes, allocated \in BOOLEAN :
        LET h == IF rc = 0 \/ (rc = -2 /\ allocated) THEN NewHandle ELSE NULL IN
        /\ (rc = 0 \/ (rc = -2 /\ allocated)) => FreeHandles # {}
        /\ rc \in {-1, 1} => ~allocated
        /\ rc = 0 => allocated
        /\ Log(s, CallRec("open", h, rc))
        /\ loc' = [loc EXCEPT ![s] = h]
        /\ IF h # NULL
           THEN /\ hstate' = [hstate EXCEPT ![h] = IF rc = 0 THEN "open" ELSE "err"]
                /\ howner' = [howner EXCEPT ![h] = s]
           ELSE UNCHANGED <<hstate, howner>>
        /\ IF rc = 0 THEN Goto(s, "switch_set_connection") /\ UNCHANGED status
           ELSE IF rc = -2 THEN Goto(s, "open_error_close") /\ UNCHANGED status
           ELSE Finish(s, Raised("OperationalError", <<"Failed to open database", rc>>))
    /\ UNCHANGED <<threaded, fetch, stconn, nops, classVars, rconn, rstate, alive, dbdir, op, cont, arg,
                   cols, pre, prev>>

\* Mutant of open_error_close: the error is raised without closing the handle.
open_error_noclose(s) ==
    /\ pc[s] = "open_error_close"
    /\ Finish(s, Raised("OperationalError", <<"Failed to open database", -2>>))
    /\ UNCHANGED <<threaded, fetch, stconn, nops, classVars, engVars, alive, dbdir, op, cont,
                   loc, arg, cols, histVars>>

\* open, result_code == -2: lib.monetdbe_close(connection), its result code
\* ignored; then raise OperationalError.
open_error_close(s) ==
    /\ pc[s] = "open_error_close"
    /\ \E rc \in {0, -2} :
        /\ Log(s, CallRec("close", loc[s], rc))
        /\ EngineClose(loc[s], rc)
    /\ Finish(s, Raised("OperationalError", <<"Failed to open database", -2>>))
    /\ UNCHANGED <<threaded, fetch, nops, classVars, rstate, alive, dbdir, op, cont,
                   loc, arg, cols, pre, prev>>

\* _switch: self.set_connection(self.open())
switch_set_connection(s) ==
    /\ pc[s] = "switch_set_connection"
    /\ connection' = loc[s]
    /\ Goto(s, "switch_set_active")
    /\ UNCHANGED <<threaded, fetch, stconn, nops, active_context, in_memory_active, engVars, alive, dbdir,
                   op, cont, loc, arg, cols, status, histVars>>

\* _switch: self.set_active_context(self)
switch_set_active(s) ==
    /\ pc[s] = "switch_set_active"
    /\ active_context' = s
    /\ Goto(s, "switch_in_memory")
    /\ UNCHANGED <<threaded, fetch, stconn, nops, in_memory_active, connection, engVars, alive, dbdir,
                   op, cont, loc, arg, cols, status, histVars>>

\* _switch: if not self.dbdir: self.set_in_memory_active(True); return
switch_in_memory(s) ==
    /\ pc[s] = "switch_in_memory"
    /\ in_memory_active' = (in_memory_active \/ dbdir[s] = "none")
    /\ Resume(s, cont[s])
    /\ UNCHANGED <<threaded, fetch, stconn, nops, active_context, connection, engVars, alive, dbdir,
                   op, cont, loc, arg, cols, histVars>>

\* close(): the user's call.
close(s) ==
    /\ op[s] = "none"
    /\ Enter(s, "close", NoArg, "close_check", "return")

\* An engine call of a method body on self._connection, read at the call.
\* check_error raises OperationalError when the engine reports an error.
EngineCall(s, kind, x, checked) ==
    /\ Log(s, CallRec(kind, connection, x))
    /\ \E ok \in BOOLEAN :
        /\ ~checked => ok
        /\ Finish(s, IF ok THEN Ok ELSE OperationalError)

\* Mutant of query: the engine call without self._switch() before it.
query_noswitch(s) ==
    /\ op[s] = "none"
    /\ \E make_result \in BOOLEAN :
        Enter(s, "query", [NoArg EXCEPT !.make_result = make_result],
              "query_call", "query_call")

\* query: self._switch()
query(s) ==
    /\ op[s] = "none"
    /\ \E make_result \in BOOLEAN :
        Enter(s, "query", [NoArg EXCEPT !.make_result = make_result],
              "switch_check", "query_call")

FreeResults == {r \in Results : rstate[r] = "none"}

\* query: check_error(lib.monetdbe_query(self._connection, ...)); with
\* make_result the engine hands back a result produced on that connection
\* (it reports an error when all MaxResults results are taken).
query_call(s) ==
    /\ pc[s] = "query_call"
    /\ Log(s, CallRec("query", connection, arg[s].make_result))
    /\ \E ok \in BOOLEAN :
        IF ok /\ arg[s].make_result
        THEN \E r \in FreeResults :
                /\ \A q \in FreeResults : r <= q
                /\ rconn' = [rconn EXCEPT ![r] = connection]
                /\ rstate' = [rstate EXCEPT ![r] = "live"]
                /\ Finish(s, [kind |-> "ok", info |-> <<r>>])
        ELSE /\ UNCHANGED <<rconn, rstate>>
             /\ Finish(s, IF ok THEN Ok ELSE OperationalError)
    /\ UNCHANGED <<threaded, fetch, stconn, nops, classVars, hstate, howner, alive, dbdir, op, cont,
                   loc, arg, cols, pre, prev>>

\* The result code of an engine call that check_error looks at: 0, or an error.
ResultCodes == {0, -1}

\* set_autocommit: self._switch()
set_autocommit(s) ==
    /\ op[s] = "none"
    /\ Enter(s, "set_autocommit", NoArg, "switch_check", "set_autocommit_call")

\* set_autocommit: check_error(lib.monetdbe_set_autocommit(self._connection, ...))
set_autocommit_call(s) ==
    /\ pc[s] = "set_autocommit_call"
    /\ \E rc \in ResultCodes :
        /\ Log(s, CallRec("set_autocommit", connection, rc))
        /\ Finish(s, IF rc = 0 THEN Ok ELSE OperationalError)
    /\ UNCHANGED <<threaded, fetch, stconn, nops, classVars, engVars, alive, dbdir, op, cont, loc, arg,
                   cols, pre, prev>>

\* get_autocommit(): a function of the module, called for session s by the
\* code that holds it.  It has no self and does not switch.
get_autocommit(s) ==
    /\ op[s] = "none"
    /\ Enter(s, "get_autocommit", NoArg, "get_autocommit_call", "return")

\* get_autocommit: check_error(lib.monetdbe_get_autocommit(value)): the engine
\* is handed no connection.
get_autocommit_call(s) ==
    /\ pc[s] = "get_autocommit_call"
    /\ \E rc \in ResultCodes :
        /\ Log(s, CallRec("get_autocommit", NULL, rc))
        /\ Finish(s, IF rc = 0 THEN Ok ELSE OperationalError)
    /\ UNCHANGED <<threaded, fetch, stconn, nops, classVars, engVars, alive, dbdir, op, cont, loc, arg,
                   cols, pre, prev>>

\* in_transaction: self._switch()
in_transaction(s) ==
    /\ op[s] = "none"
    /\ Enter(s, "in_transaction", NoArg, "switch_check", "in_transaction_call")

\* in_transaction: return bool(lib.monetdbe_in_transaction(self._connection))
in_transaction_call(s) ==
    /\ pc[s] = "in_transaction_call"
    /\ EngineCall(s, "in_transaction", <<>>, FALSE)
    /\ UNCHANGED <<threaded, fetch, stconn, nops, classVars, engVars, alive, dbdir, op, cont, loc, arg,
                   cols, pre, prev>>

\* prepare: self._switch()
prepare(s) ==
    /\ op[s] = "none"
    /\ Enter(s, "prepare", NoArg, "switch_check", "prepare_call")

FreeStatements == {st \in Statements : stconn[st] = NULL}

\* The statements a caller can hold: prepared and not cleaned up.
HeldStatements == {st \in Statements : stconn[st] # NULL}

\* prepare: check_error(lib.monetdbe_prepare(self._connection, ...)); return
\* stmt[0], a statement prepared on that connection (the engine reports an
\* error when all MaxStatements statements are taken).
prepare_call(s) ==
    /\ pc[s] = "prepare_call"
    /\ Log(s, CallRec("prepare", connection, <<>>))
    /\ \E ok \in BOOLEAN :
        IF ok
        THEN \E st \in FreeStatements :
                /\ \A q \in FreeStatements : st <= q
                /\ stconn' = [stconn EXCEPT ![st] = connection]
                /\ Finish(s, [kind |-> "ok", info |-> <<st>>])
        ELSE /\ UNCHANGED stconn
             /\ Finish(s, OperationalError)
    /\ UNCHANGED <<threaded, fetch, nops, classVars, engVars, alive, dbdir, op, cont, loc, arg,
                   cols, pre, prev>>

\* cleanup_statement: self._switch()
cleanup_statement(s) ==
    /\ op[s] = "none"
    /\ \E st \in HeldStatements :
        Enter(s, "cleanup_statement", [NoArg EXCEPT !.statement = st],
              "switch_check", "cleanup_statement_call")

\* cleanup_statement: lib.monetdbe_cleanup_statement(self._connection, statement),
\* its result not looked at.  The call is logged with the connection the
\* statement was prepared on.
cleanup_statement_call(s) ==
    /\ pc[s] = "cleanup_statement_call"
    /\ Log(s, CallRec("cleanup_statement", connection,
                      <<arg[s].statement, stconn[arg[s].statement]>>))
    /\ stconn' = [stconn EXCEPT ![arg[s].statement] = NULL]
    /\ Finish(s, Ok)
    /\ UNCHANGED <<threaded, fetch, nops, classVars, engVars, alive, dbdir, op, cont, loc, arg,
                   cols, pre, prev>>

\* bind(statement, data, parameter_nr): a function of the module, called for
\* session s by the code that holds it; no self, no switch.
bind(s) ==
    /\ op[s] = "none"
    /\ \E st \in HeldStatements :
        Enter(s, "bind", [NoArg EXCEPT !.statement = st], "bind_call", "return")

\* bind: check_error(lib.monetdbe_bind(statement, ...)): the engine is handed
\* the statement only and works on the connection it was prepared on.
bind_call(s) ==
    /\ pc[s] = "bind_call"
    /\ Log(s, CallRec("bind", NULL, <<arg[s].statement, stconn[arg[s].statement]>>))
    /\ \E rc \in ResultCodes : Finish(s, IF rc = 0 THEN Ok ELSE OperationalError)
    /\ UNCHANGED <<threaded, fetch, stconn, nops, classVars, engVars, alive, dbdir, op, cont,
                   loc, arg, cols, pre, prev>>

\* execute(statement, make_result): a function of the module; no switch.
execute(s) ==
    /\ op[s] = "none"
    /\ \E st \in HeldStatements, make_result \in BOOLEAN :
        Enter(s, "execute", [NoArg EXCEPT !.statement = st, !.make_result = make_result],
              "execute_call", "return")

\* execute: check_error(lib.monetdbe_execute(statement, p_result, affected_rows));
\* with make_result the engine hands back a result produced on the
\* statement's connection.
execute_call(s) ==
    /\ pc[s] = "execute_call"
    /\ Log(s, CallRec("execute", NULL, <<arg[s].statement, stconn[arg[s].statement]>>))
    /\ \E ok \in BOOLEAN :
        IF ok /\ arg[s].make_result
        THEN \E r \in FreeResults :
                /\ \A q \in FreeResults : r <= q
                /\ rconn' = [rconn EXCEPT ![r] = stconn[arg[s].statement]]
                /\ rstate' = [rstate EXCEPT ![r] = "live"]
                /\ Finish(s, [kind |-> "ok", info |-> <<r>>])
        ELSE /\ UNCHANGED <<rconn, rstate>>
             /\ Finish(s, IF ok THEN Ok ELSE OperationalError)
    /\ UNCHANGED <<threaded, fetch, stconn, nops, classVars, hstate, howner, alive, dbdir, op,
                   cont, loc, arg, cols, pre, prev>>

\* cleanup_result(result): result is None or a result some query returned.
cleanup_result(s) ==
    /\ op[s] = "none"
    /\ \E r \in {NULL} \cup {q \in Results : rstate[q] # "none"} :
        Enter(s, "cleanup_result", [NoArg EXCEPT !.result = r],
              "cleanup_result_check", "return")

\* Mutant of cleanup_result_check: only the result is tested.
cleanup_result_check_result_only(s) ==
    /\ pc[s] = "cleanup_result_check"
    /\ IF arg[s].result # NULL
       THEN Goto(s, "cleanup_result_call") /\ UNCHANGED status
       ELSE Finish(s, Ok)
    /\ UNCHANGED <<threaded, fetch, stconn, nops, classVars, engVars, alive, dbdir, op, cont, loc, arg,
                   cols, histVars>>

\* cleanup_result: if result and self._connection:
cleanup_result_check(s) ==
    /\ pc[s] = "cleanup_result_check"
    /\ IF arg[s].result # NULL /\ connection # NULL
       THEN Goto(s, "cleanup_result_call") /\ UNCHANGED status
       ELSE Finish(s, Ok)
    /\ UNCHANGED <<threaded, fetch, stconn, nops, classVars, engVars, alive, dbdir, op, cont, loc, arg,
                   cols, histVars>>

\* cleanup_result: check_error(lib.monetdbe_cleanup_result(self._connection, result)).
\* The call is logged with what the result was when it was handed over:
\* live or already freed, and the connection it was produced on.
cleanup_result_call(s) ==
    /\ pc[s] = "cleanup_result_call"
    /\ rstate' = [rstate EXCEPT ![arg[s].result] = "freed"]
    /\ EngineCall(s, "cleanup_result",
                  <<arg[s].result, rstate[arg[s].result], rconn[arg[s].result]>>, TRUE)
    /\ UNCHANGED <<threaded, fetch, stconn, nops, classVars, hstate, howner, rconn, alive, dbdir, op, cont,
                   loc, arg, cols, pre, prev>>

\* ----------------------------------------------------- get_columns, append
\* Column names and engine type tags of the tables in the model, and the
\* dtypes of the arrays that are appended.
ColNames == {"a", "b"}
TypeTags == {"monetdbe_int32_t", "monetdbe_double"}
DTypes == {"int32", "float64"}

\* What lib.monetdbe_get_columns can write for the target table, in the
\* engine's declared order: count 0 (nothing written: no such table), one
\* column, or two.  Column names are distinct.  Renaming the columns and the
\* types maps every other table over ColNames and TypeTags to one of these.
Tables ==
    { <<>>,
      << <<"a", "monetdbe_int32_t">> >>,
      << <<"a", "monetdbe_int32_t">>, <<"b", "monetdbe_int32_t">> >>,
      << <<"a", "monetdbe_int32_t">>, <<"b", "monetdbe_double">> >> }

\* data: Mapping[str, np.ndarray], as the set of its (key, array dtype) items.
DataSets ==
    UNION { [ks -> DTypes] : ks \in SUBSET ColNames }

keys(data) == DOMAIN data

\* convert.numpy_monetdb_map(dtype) -> (work_type_string, work_type)
numpy_monetdb_map(dtype) ==
    IF dtype = "int32" THEN <<"int32_t", "monetdbe_int32_t">>
    ELSE <<"double", "monetdbe_double">>

\* convert.monet_numpy_map[type][0], the type's C name
monet_numpy_map(type) ==
    IF type = "monetdbe_int32_t" THEN "int32_t" ELSE "double"

existing_names(existing_columns) ==
    {existing_columns[i][1] : i \in 1..Len(existing_columns)}

\* Mutant of work_columns: the types are not compared.
RECURSIVE work_columns_unchecked(_, _, _, _)
work_columns_unchecked(existing_columns, data, column_num, work_objs) ==
    IF column_num > Len(existing_columns)
    THEN [kind |-> "ok", info |-> work_objs]
    ELSE LET column_name == existing_columns[column_num][1]
             work == numpy_monetdb_map(data[column_name])
         IN  work_columns_unchecked(existing_columns, data, column_num + 1,
                                    Append(work_objs, [type |-> work[2], name |-> column_name]))

\* append, the loop over enumerate(existing_columns) from column column_num
\* on: the first column whose work_type differs from the table's raises
\* ProgrammingError naming both types; else one work_column per column.
RECURSIVE work_columns(_, _, _, _)
work_columns(existing_columns, data, column_num, work_objs) ==
    IF column_num > Len(existing_columns)
    THEN [kind |-> "ok", info |-> work_objs]
    ELSE LET column_name == existing_columns[column_num][1]
             existing_type == existing_columns[column_num][2]
             work == numpy_monetdb_map(data[column_name])
         IN  IF work[2] # existing_type
             THEN Raised("ProgrammingError",
                         <<"type", work[1], column_name, monet_numpy_map(existing_type)>>)
             ELSE work_columns(existing_columns, data, column_num + 1,
                               Append(work_objs, [type |-> work[2], name |-> column_name]))

\* append, after list(self.get_columns(...)): zip(*existing_columns) cannot be
\* unpacked into two when there is no column (ValueError); the name sets must
\* be equal (ProgrammingError listing both); then the loop.
append_check(existing_columns, data) ==
    IF existing_columns = <<>>
    THEN Raised("ValueError", <<"not enough values to unpack">>)
    ELSE IF existing_names(existing_columns) # keys(data)
    THEN Raised("ProgrammingError",
                <<"names", keys(data), existing_names(existing_columns)>>)
    ELSE work_columns(existing_columns, data, 1, <<>>)

\* get_columns: self._switch().  The generator's body runs when the sequence
\* is consumed; the method is taken together with its consumption.
get_columns(s) ==
    /\ op[s] = "none"
    /\ Enter(s, "get_columns", NoArg, "switch_check", "get_columns_call")

\* get_columns: lib.monetdbe_get_columns(self._connection, ...), its result
\* code not looked at; then the (name, type) pairs are yielded: as many as
\* the engine left in count_p (zero-initialised), whatever the code was.
get_columns_call(s) ==
    /\ pc[s] = "get_columns_call"
    /\ \E rc \in ResultCodes, existing_columns \in Tables :
        /\ Log(s, CallRec("get_columns", connection, rc))
        /\ cols' = [cols EXCEPT ![s] = existing_columns]
    /\ IF op[s] = "append"
       THEN Goto(s, "append_check") /\ UNCHANGED status
       ELSE Finish(s, Ok)
    /\ UNCHANGED <<threaded, fetch, stconn, nops, classVars, engVars, alive, dbdir, op, cont, loc, arg,
                   pre, prev>>

\* append: self._switch()
append(s) ==
    /\ op[s] = "none"
    /\ Enter(s, "append", NoArg, "switch_check", "append_get_columns")

\* append: existing_columns = list(self.get_columns(schema=schema, table=table)),
\* which starts with get_columns' own self._switch()
append_get_columns(s) ==
    /\ pc[s] = "append_get_columns"
    /\ Goto(s, "switch_check")
    /\ cont' = [cont EXCEPT ![s] = "get_columns_call"]
    /\ UNCHANGED <<threaded, fetch, stconn, nops, classVars, engVars, alive, dbdir, op, loc, arg, cols,
                   status, histVars>>

\* append: the checks of the caller's data (first read here) against the
\* columns; all of it is local to the method.
append_validate(s) ==
    /\ pc[s] = "append_check"
    /\ \E data \in DataSets :
        /\ arg' = [arg EXCEPT ![s].data = data]
        /\ IF append_check(cols[s], data).kind = "ok"
           THEN Goto(s, "append_call") /\ UNCHANGED status
           ELSE Finish(s, append_check(cols[s], data))
    /\ UNCHANGED <<threaded, fetch, stconn, nops, classVars, engVars, alive, dbdir, op, cont, loc, cols,
                   histVars>>

\* append: check_error(lib.monetdbe_append(self._connection, ..., work_columns, n_columns))
append_call(s) ==
    /\ pc[s] = "append_call"
    /\ EngineCall(s, "append", append_check(cols[s], arg[s].data).info, TRUE)
    /\ UNCHANGED <<threaded, fetch, stconn, nops, classVars, engVars, alive, dbdir, op, cont, loc, arg,
                   cols, pre, prev>>

\* The method has returned or raised: its frame is gone.  An object whose
\* __init__ raised is never handed to the caller (it was never made the
\* active context, so its __del__ does nothing); a finalized one is gone.
\* prev remembers the method that returned last when it was a close() that
\* succeeded.  The configuration of an object that is gone is forgotten.
method_return(s) ==
    /\ pc[s] = "done"
    /\ prev' = IF ~threaded /\ op[s] = "close" /\ status[s].kind = "ok"
               THEN [s |-> s, op |-> op[s], kind |-> status[s].kind]
               ELSE NoPrev
    /\ alive' = [alive EXCEPT ![s] =
                    IF op[s] = "init" THEN (IF status[s].kind = "ok" THEN "live" ELSE "dead")
                    ELSE IF op[s] = "del" THEN "dead"
                    ELSE @]
    /\ pc' = [pc EXCEPT ![s] = "idle"]
    /\ op' = [op EXCEPT ![s] = "none"]
    /\ cont' = [cont EXCEPT ![s] = "return"]
    /\ loc' = [loc EXCEPT ![s] = NULL]
    /\ arg' = [arg EXCEPT ![s] = NoArg]
    /\ cols' = [cols EXCEPT ![s] = <<>>]
    /\ status' = [status EXCEPT ![s] = NoStatus]
    /\ calls' = [calls EXCEPT ![s] = <<>>]
    /\ pre' = [pre EXCEPT ![s] = NoPre]
    /\ dbdir' = [dbdir EXCEPT ![s] = IF alive'[s] = "dead" THEN "none" ELSE @]
    /\ UNCHANGED <<threaded, fetch, stconn, nops, classVars, engVars>>

\* ---------------------------------------------------- result_fetch_numpy
\* The fixed-width column types in the model: one without a null sentinel,
\* two integer widths and a float.
FixedTypes == {"monetdbe_bool", "monetdbe_int8_t", "monetdbe_int16_t", "monetdbe_float"}

\* The bit pattern of the float NaN, and of 1.0 (elements of a float buffer
\* are kept as their 32 bits).
NaNBits == 2143289344
OneBits == 1065353216

\* convert.monet_numpy_map[type][3], monetdbe_null: None for a type without a
\* sentinel, the minimum representable integer, the NaN pattern for floats.
monetdbe_null(type) ==
    IF type = "monetdbe_int8_t" THEN [defined |-> TRUE, value |-> -128]
    ELSE IF type = "monetdbe_int16_t" THEN [defined |-> TRUE, value |-> -32768]
    ELSE IF type = "monetdbe_float" THEN [defined |-> TRUE, value |-> NaNBits]
    ELSE [defined |-> FALSE, value |-> 0]

\* The values a native buffer of the type holds in the model.
BufferValues(type) ==
    IF type = "monetdbe_bool" THEN {0, 1}
    ELSE IF type = "monetdbe_float" THEN {NaNBits, 0, OneBits}
    ELSE {monetdbe_null(type).value, 0, 1}

Buffers(type) == UNION {[1..n -> BufferValues(type)] : n \in 0..MaxRows}

\* if monetdbe_null: Python truth of the sentinel (None and 0 are false, NaN true)
truthy(null) == null.defined /\ null.value # 0

\* np_col == monetdbe_null, for one element: numpy's ==, under which a float
\* NaN equals nothing, itself included.
np_equal(type, x, y) ==
    IF type = "monetdbe_float" /\ (x = NaNBits \/ y = NaNBits)
    THEN FALSE
    ELSE x = y

NoFetch == [pc |-> "none", type |-> "none", data |-> <<>>, np_col |-> <<>>, mask |-> <<>>]

\* result_fetch_numpy, a fixed-width column: np_col = np.frombuffer(c_buffer,
\* dtype=numpy_type) over result.nrows * itemsize bytes of rcol.data.
result_fetch_numpy_frombuffer ==
    /\ fetch.pc = "frombuffer"
    /\ fetch' = [fetch EXCEPT !.pc = "mask",
                              !.np_col = [r \in 1..Len(fetch.data) |-> fetch.data[r]]]
    /\ UNCHANGED <<threaded, nops, classVars, engVars, alive, dbdir, pc, op, cont, loc,
                   arg, cols, status, histVars, stconn>>

\* result_fetch_numpy: mask = np_col == monetdbe_null if monetdbe_null, else
\* np.ma.nomask (nothing masked); masked = np.ma.masked_array(np_col, mask=mask)
result_fetch_numpy_mask ==
    /\ fetch.pc = "mask"
    /\ fetch' = [fetch EXCEPT
                    !.pc = "done",
                    !.mask = IF truthy(monetdbe_null(fetch.type))
                             THEN [r \in 1..Len(fetch.np_col) |->
                                     np_equal(fetch.type, fetch.np_col[r],
                                              monetdbe_null(fetch.type).value)]
                             ELSE [r \in 1..Len(fetch.np_col) |-> FALSE]]
    /\ UNCHANGED <<threaded, nops, classVars, engVars, alive, dbdir, pc, op, cont, loc,
                   arg, cols, status, histVars, stconn>>

\* ------------------------------------------------------- specification
InitState ==
    /\ nops = 0
    /\ active_context = None
    /\ in_memory_active = FALSE
    /\ connection = NULL
    /\ hstate = [h \in Handles |-> "free"]
    /\ howner = [h \in Handles |-> None]
    /\ rconn = [r \in Results |-> NULL]
    /\ rstate = [r \in Results |-> "none"]
    /\ alive = [s \in Sessions |-> "new"]
    /\ dbdir = [s \in Sessions |-> "none"]
    /\ pc = [s \in Sessions |-> "idle"]
    /\ op = [s \in Sessions |-> "none"]
    /\ cont = [s \in Sessions |-> "return"]
    /\ loc = [s \in Sessions |-> NULL]
    /\ arg = [s \in Sessions |-> NoArg]
    /\ cols = [s \in Sessions |-> <<>>]
    /\ status = [s \in Sessions |-> NoStatus]
    /\ calls = [s \in Sessions |-> <<>>]
    /\ pre = [s \in Sessions |-> NoPre]
    /\ prev = NoPrev
    /\ stconn = [st \in Statements |-> NULL]

Init == threaded = FALSE /\ fetch = NoFetch /\ InitState
InitThreads == threaded = TRUE /\ fetch = NoFetch /\ InitState

Next ==
    \E s \in Sessions :
        \/ Internal_init(s)
        \/ Internal_del(s)
        \/ del_check(s)
        \/ close(s)
        \/ switch_check(s)
        \/ close_check(s)
        \/ close_call(s)
        \/ close_set_connection(s)
        \/ close_clear_active(s)
        \/ close_in_memory(s)
        \/ open_call(s)
        \/ open_error_close(s)
        \/ switch_set_connection(s)
        \/ switch_set_active(s)
        \/ switch_in_memory(s)
        \/ query(s)
        \/ query_call(s)
        \/ set_autocommit(s)
        \/ set_autocommit_call(s)
        \/ get_autocommit(s)
        \/ get_autocommit_call(s)
        \/ in_transaction(s)
        \/ in_transaction_call(s)
        \/ prepare(s)
        \/ prepare_call(s)
        \/ cleanup_statement(s)
        \/ cleanup_statement_call(s)
        \/ bind(s)
        \/ bind_call(s)
        \/ execute(s)
        \/ execute_call(s)
        \/ cleanup_result(s)
        \/ cleanup_result_check(s)
        \/ cleanup_result_call(s)
        \/ get_columns(s)
        \/ get_columns_call(s)
        \/ append(s)
        \/ append_get_columns(s)
        \/ append_validate(s)
        \/ append_call(s)
        \/ method_return(s)

\* Whole, non-interleaved operations on any number of sessions.
Spec == Init /\ [][Next]_vars

\* One thread per session, steps interleaving freely.
SpecThreads == InitThreads /\ [][Next]_vars

\* result_fetch_numpy on one fixed-width column of any type and any buffer of
\* at most MaxRows rows.
InitFetch ==
    /\ threaded = FALSE
    /\ InitState
    /\ \E type \in FixedTypes : \E data \in Buffers(type) :
         fetch = [NoFetch EXCEPT !.pc = "frombuffer", !.type = type, !.data = data]

NextFetch ==
    \/ result_fetch_numpy_frombuffer
    \/ result_fetch_numpy_mask

SpecFetch == InitFetch /\ [][NextFetch]_vars

\* ---------------------------------------------------------------- claims
OpenHandles == {h \in Handles : hstate[h] = "open"}

\* The methods that start with self._switch(), and their engine calls.
SwitchOps == {"query", "prepare", "append", "set_autocommit", "in_transaction",
              "get_columns", "cleanup_statement"}

Calls(s) == {calls[s][i] : i \in DOMAIN calls[s]}

\* C1: with whole operations on any sessions, at most one native connection
\* is open in every state, the states inside a switch included, and when
\* open() is about to call the engine no connection is open any more: the
\* previously active session's handle was closed first.
C1_AtMostOneConnection ==
    /\ Cardinality(OpenHandles) <= 1
    /\ \A s \in Sessions : pc[s] = "open_call" => OpenHandles = {}

\* C1 witness: inside the switch of a session that supersedes another one,
\* after the engine closed that one's open handle and before the open.
C1_Witness ==
    \E s \in Sessions :
        /\ pc[s] = "open_call"
        /\ pre[s].active \notin {None, s}
        /\ calls[s] # <<>>
        /\ calls[s][1].kind = "close"
        /\ calls[s][1].hs = "open"
        /\ calls[s][1].own = pre[s].active

\* C2: every engine call of query, prepare, append, set_autocommit,
\* in_transaction and get_columns on session s is issued on an open handle
\* that s opened, and when the method returns successfully s is the active
\* session (and the stored handle is its own).
C2_CallsOnOwnHandle ==
    \A s \in Sessions :
        op[s] \in SwitchOps =>
            /\ \A c \in Calls(s) :
                 c.kind \in SwitchOps => c.h # NULL /\ c.hs = "open" /\ c.own = s
            /\ (pc[s] = "done" /\ status[s].kind = "ok") =>
                 /\ active_context = s
                 /\ connection # NULL
                 /\ howner[connection] = s

\* C2 witness: a query on a session that was not the active one returned
\* successfully, after switching away from another session.
C2_Witness ==
    \E s \in Sessions :
        /\ op[s] = "query"
        /\ pc[s] = "done"
        /\ status[s].kind = "ok"
        /\ pre[s].active \notin {None, s}

\* C3 (as claimed): with one thread per session and steps interleaving, at
\* most one connection is open, no open handle is lost from _connection
\* without being closed, and every engine call of a method is issued on an
\* open handle of the calling session.
C3_ThreadSafe ==
    /\ Cardinality(OpenHandles) <= 1
    /\ \A h \in OpenHandles :
         \/ connection = h
         \/ \E s \in Sessions : pc[s] = "switch_set_connection" /\ loc[s] = h
    /\ \A s \in Sessions : \A c \in Calls(s) :
         c.kind \in SwitchOps => c.h # NULL /\ c.hs = "open" /\ c.own = s

\* C4 (as claimed): the engine cleanup call is issued at most once per result
\* pointer: no cleanup call hands over a result that was already freed.
C4_CleanupAtMostOnce ==
    \A s \in Sessions : \A c \in Calls(s) :
        c.kind = "cleanup_result" => c.x[2] = "live"

\* C5: cleanup_result with a null result, or while no connection is stored,
\* returns normally in one step that calls nothing and changes nothing.
C5_CleanupNoop ==
    [][\A s \in Sessions :
          (pc[s] = "cleanup_result_check"
             /\ (arg[s].result = NULL \/ connection = NULL))
          => /\ pc'[s] = "done"
             /\ status'[s] = Ok
             /\ calls'[s] = <<>>
             /\ UNCHANGED <<classVars, engVars>>]_vars

\* C5 witness: cleanup_result of a real result returned while no connection
\* was stored (after a close).
C5_Witness ==
    \E s \in Sessions :
        /\ op[s] = "cleanup_result"
        /\ pc[s] = "done"
        /\ arg[s].result # NULL
        /\ pre[s].connection = NULL
        /\ pre[s].prev.op = "close"
        /\ status[s] = Ok

\* C6 (as claimed): an open handle is released only by close() of the session
\* that opened it, by the switch of another session, or by the finalizer of
\* its session while that is the active one; close() on a session that is not
\* the active one leaves the active session's handle and marker alone.
C6_ReleaseCases ==
    \A s \in Sessions :
        /\ \A c \in Calls(s) :
             (c.kind = "close" /\ c.hs = "open" /\ c.x = 0) =>
                \/ op[s] = "close" /\ c.own = s
                \/ op[s] \in SwitchOps \cup {"init"} /\ c.own # s
                \/ op[s] = "del" /\ c.own = s /\ pre[s].active = s
        /\ (op[s] = "close" /\ pre[s].active \notin {None, s}) =>
             /\ active_context = pre[s].active
             /\ connection = pre[s].connection

\* C7: a close() that directly follows a successful close() of the same
\* session issues no engine call, raises nothing and leaves _connection,
\* _active_context and in_memory_active as the first close left them.
C7_CloseIdempotent ==
    \A s \in Sessions :
        (op[s] = "close" /\ pre[s].prev = [s |-> s, op |-> "close", kind |-> "ok"]) =>
            /\ calls[s] = <<>>
            /\ status[s].kind \in {"none", "ok"}
            /\ pc[s] = "done" => status[s] = Ok
            /\ connection = pre[s].connection
            /\ active_context = pre[s].active
            /\ in_memory_active = pre[s].in_memory

\* C7 witness: the second close() has returned.
C7_Witness ==
    \E s \in Sessions :
        /\ op[s] = "close"
        /\ pc[s] = "done"
        /\ pre[s].prev = [s |-> s, op |-> "close", kind |-> "ok"]
        /\ status[s] = Ok

\* C8: a method of the session that is already active issues neither an
\* engine close nor an engine open; its engine calls run on the handle that
\* was stored when it was entered, which stays stored.
C8_SwitchNoopWhenActive ==
    \A s \in Sessions :
        (op[s] \in SwitchOps /\ pre[s].active = s) =>
            /\ \A c \in Calls(s) :
                 /\ c.kind \notin {"close", "open"}
                 /\ c.h = pre[s].connection
            /\ connection = pre[s].connection
            /\ active_context = s

\* C8 witness: a query of the active session has issued its one engine call.
C8_Witness ==
    \E s \in Sessions :
        /\ op[s] = "query"
        /\ pc[s] = "done"
        /\ pre[s].active = s
        /\ Len(calls[s]) = 1
        /\ calls[s][1].kind = "query"

\* The columns, by position, whose appended array maps to another engine type
\* than the table declares (the data has every column).
Mismatches(existing_columns, data) ==
    {i \in 1..Len(existing_columns) :
        numpy_monetdb_map(data[existing_columns[i][1]])[2] # existing_columns[i][2]}

\* append has read the columns and the caller's data.
Validated(s) == op[s] = "append" /\ pc[s] \in {"append_call", "done"} /\
                Len(calls[s]) >= 1 /\ calls[s][Len(calls[s])].kind \in {"get_columns", "append"}

\* C9 (as claimed): whatever columns the engine returns, when the provided
\* names are not exactly the existing names append fails with
\* ProgrammingError and the engine append is not called.
C9_NameMismatch ==
    \A s \in Sessions :
        (Validated(s) /\ existing_names(cols[s]) # keys(arg[s].data)) =>
            /\ pc[s] = "done"
            /\ status[s].kind = "ProgrammingError"
            /\ \A c \in Calls(s) : c.kind # "append"

\* C9 where the engine returned at least one column: there it holds.
C9_NameMismatch_NonEmpty ==
    \A s \in Sessions :
        (Validated(s) /\ cols[s] # <<>> /\ existing_names(cols[s]) # keys(arg[s].data)) =>
            /\ pc[s] = "done"
            /\ status[s] = Raised("ProgrammingError",
                                  <<"names", keys(arg[s].data), existing_names(cols[s])>>)
            /\ \A c \in Calls(s) : c.kind # "append"

\* C10: with matching names, append fails at the first column, in the
\* engine's order, whose derived type differs from the declared one, with a
\* ProgrammingError naming both types; the engine append is called only when
\* names and all types match, with one descriptor per column in that order.
C10_TypeMismatch ==
    \A s \in Sessions :
        /\ (Validated(s) /\ existing_names(cols[s]) = keys(arg[s].data)
              /\ Mismatches(cols[s], arg[s].data) # {}) =>
             LET first == CHOOSE i \in Mismatches(cols[s], arg[s].data) :
                             \A j \in Mismatches(cols[s], arg[s].data) : i <= j
                 name == cols[s][first][1]
             IN  /\ pc[s] = "done"
                 /\ status[s] = Raised("ProgrammingError",
                                       <<"type", numpy_monetdb_map(arg[s].data[name])[1], name,
                                         monet_numpy_map(cols[s][first][2])>>)
        /\ \A c \in Calls(s) :
             c.kind = "append" =>
                /\ existing_names(cols[s]) = keys(arg[s].data)
                /\ Mismatches(cols[s], arg[s].data) = {}
                /\ c.x = [i \in 1..Len(cols[s]) |->
                            [type |-> cols[s][i][2], name |-> cols[s][i][1]]]

\* C10 witness: both columns of a two-column table mismatch and append has
\* failed naming the first of them.
C10_Witness ==
    \E s \in Sessions :
        /\ Validated(s)
        /\ pc[s] = "done"
        /\ Len(cols[s]) = 2
        /\ existing_names(cols[s]) = keys(arg[s].data)
        /\ Mismatches(cols[s], arg[s].data) = {1, 2}
        /\ status[s].kind = "ProgrammingError"
        /\ status[s].info[3] = cols[s][1][1]

\* A failed open: the method has raised open()'s OperationalError.
OpenFailed(s) ==
    /\ pc[s] = "done"
    /\ status[s].kind = "OperationalError"
    /\ Len(status[s].info) = 2
    /\ status[s].info[1] = "Failed to open database"

\* C11: after a failed open, whatever the result code, no handle is left
\* allocated (open or in error), none is stored and no session is marked
\* active; and when the engine had allocated a handle, the engine close was
\* called on that handle right after the open, before the error propagated.
C11_FailedOpenCleanup ==
    \A s \in Sessions :
        OpenFailed(s) =>
            /\ \A h \in Handles : hstate[h] = "free"
            /\ connection = NULL
            /\ active_context = None
            /\ \A i \in DOMAIN calls[s] :
                 (calls[s][i].kind = "open" /\ calls[s][i].h # NULL) =>
                    /\ i < Len(calls[s])
                    /\ calls[s][i + 1].kind = "close"
                    /\ calls[s][i + 1].h = calls[s][i].h
                    /\ calls[s][i + 1].hs = "err"

\* C11 witness: a session superseding an active one closed it, then its own
\* open failed with the engine-level error and a handle allocated.
C11_Witness ==
    \E s \in Sessions :
        /\ OpenFailed(s)
        /\ status[s].info[2] = -2
        /\ pre[s].active \notin {None, s}
        /\ \E i \in DOMAIN calls[s] : calls[s][i].kind = "open" /\ calls[s][i].h # NULL

\* The three pass-through operations of the transaction state.
AutocommitOps == {"set_autocommit", "get_autocommit", "in_transaction"}

\* C12 (as claimed): each of set_autocommit, get_autocommit and in_transaction
\* issues its engine call on an open handle of the calling session, which is
\* then the active one, and a non-zero engine status ends the operation with
\* OperationalError (in_transaction's engine value is its answer, not a status).
C12_AutocommitAfterSwitch ==
    \A s \in Sessions :
        op[s] \in AutocommitOps =>
            \A c \in Calls(s) :
                c.kind = op[s] =>
                    /\ c.h # NULL
                    /\ c.hs = "open"
                    /\ c.own = s
                    /\ active_context = s
                    /\ (c.kind # "in_transaction" /\ c.x # 0)
                         => status[s].kind = "OperationalError"

\* C13 (as claimed): when the engine reports failure for the get-columns
\* call, the operation that issued it (get_columns, or append consuming it)
\* ends with OperationalError and goes no further.
C13_GetColumnsFailure ==
    \A s \in Sessions : \A c \in Calls(s) :
        (c.kind = "get_columns" /\ c.x # 0) =>
            /\ pc[s] = "done"
            /\ status[s].kind = "OperationalError"

\* The rows of the native buffer that hold the type's null sentinel.
SentinelRows(type, data) ==
    IF monetdbe_null(type).defined
    THEN {r \in 1..Len(data) : data[r] = monetdbe_null(type).value}
    ELSE {}

\* C14 (as claimed): a materialized fixed-width column has the length of the
\* native buffer, its masked rows are exactly the rows holding the type's
\* null sentinel (none when the type has no sentinel), and every other row
\* equals its source value.
C14_FixedWidthMask ==
    fetch.pc = "done" =>
        /\ Len(fetch.np_col) = Len(fetch.data)
        /\ Len(fetch.mask) = Len(fetch.data)
        /\ {r \in 1..Len(fetch.mask) : fetch.mask[r]} = SentinelRows(fetch.type, fetch.data)
        /\ \A r \in 1..Len(fetch.data) : ~fetch.mask[r] => fetch.np_col[r] = fetch.data[r]

\* C14 for the types whose sentinel is not a float NaN: there it holds.
C14_FixedWidthMask_NotFloat ==
    fetch.type # "monetdbe_float" => C14_FixedWidthMask

\* C15 (as claimed): every engine cleanup-result call passes the connection
\* handle on which the result was produced.
C15_CleanupOnProducingConnection ==
    \A s \in Sessions : \A c \in Calls(s) :
        c.kind = "cleanup_result" => c.h = c.x[3]

\* close() inside the method of s has raised on a failed engine close.
CloseFailed(s) ==
    /\ pc[s] = "done"
    /\ status[s] = Raised("OperationalError", <<"Failed to close database">>)

\* C16: an engine close of the stored handle that reports failure ends the
\* method with OperationalError; the stored handle (still open) and the
\* active-session marker are as they were when the method was entered, and
\* the method has issued no engine open.
C16_CloseFailure ==
    \A s \in Sessions :
        /\ \A c \in Calls(s) :
             (c.kind = "close" /\ c.hs = "open" /\ c.x # 0) => CloseFailed(s)
        /\ CloseFailed(s) =>
             /\ connection = pre[s].connection
             /\ active_context = pre[s].active
             /\ connection # NULL
             /\ hstate[connection] = "open"
             /\ \A c \in Calls(s) : c.kind # "open"

\* C16 witness: the switch of a session that is not the active one stopped at
\* its failed close step.
C16_Witness ==
    \E s \in Sessions :
        /\ CloseFailed(s)
        /\ op[s] \in SwitchOps \cup {"init"}
        /\ pre[s].active \notin {None, s}

C18_ReclaimOnlyActive ==
    \A s \in Sessions :
        op[s] = "del" =>
            /\ \A c \in Calls(s) :
                 /\ c.kind = "close"
                 /\ pre[s].active = s
                 /\ c.h = pre[s].connection
            /\ pre[s].active # s =>
                 /\ calls[s] = <<>>
                 /\ status[s].kind \in {"none", "ok"}
                 /\ connection = pre[s].connection
                 /\ active_context = pre[s].active
                 /\ in_memory_active = pre[s].in_memory

\* C18 witness: a session was finalized while another one was active.
C18_Witness ==
    \E s \in Sessions :
        /\ op[s] = "del"
        /\ pc[s] = "done"
        /\ pre[s].active \notin {None, s}
        /\ pre[s].connection # NULL

\* No method is running.
Quiescent == \A s \in Sessions : pc[s] = "idle"

\* C19: between whole operations the active-session marker is set exactly
\* when a handle is stored, and then the stored handle is open and is the
\* one the marked session opened.
C19_MarkerIffHandle ==
    Quiescent =>
        /\ (active_context # None) <=> (connection # NULL)
        /\ active_context # None =>
             /\ hstate[connection] = "open"
             /\ howner[connection] = active_context

\* C19 witness: between operations, with two sessions constructed, one of
\* them is marked and its handle stored.
C19_Witness ==
    /\ Quiescent
    /\ \E s, t \in Sessions :
         /\ s # t
         /\ alive[s] = "live"
         /\ alive[t] = "live"
         /\ active_context = s
         /\ connection # NULL

\* C20 (as claimed): bind, execute and cleanup_statement reach the engine
\* while the connection the statement was prepared on is still open, and
\* cleanup_statement passes that connection.
C20_StatementOnLiveConnection ==
    \A s \in Sessions : \A c \in Calls(s) :
        c.kind \in {"bind", "execute", "cleanup_statement"} =>
            /\ c.x[2] \in Handles
            /\ c.kind = "cleanup_statement" => c.h = c.x[2]

====
